---- MODULE Spec2Model ----
(***************************************************************************)
(* StreamProtocol (swarm/src/stream_protocol.rs): its two constructors,    *)
(* its views, comparisons and hash, and the storage behind its values.     *)
(* The connection served by the Behaviour of the ping example              *)
(* (examples/ping-example/src/main.rs): keep-alive votes, streams, close.  *)
(*                                                                         *)
(* Memory is a flat array of cells.  A String's buffer is one allocation;  *)
(* the DataOffset cells in front of it belong to somebody else (allocator  *)
(* bookkeeping or a neighbouring object) and hold arbitrary content.       *)
(* Arc<str> is a pointer to an ArcInner { strong, weak, data }.            *)
(***************************************************************************)
EXTENDS Integers, Sequences, FiniteSets, Bags, TLC

VARIABLES heap, alloc, vals, result, status, rcAccess, clones,
          votes, aggregate, idle, conn, closeReason, streams, delivered,
          openAtClose

protoVars == <<heap, alloc, vals, result, status, rcAccess, clones>>
swarmVars == <<votes, aggregate, idle, conn, closeReason, streams, delivered,
               openAtClose>>
vars == <<heap, alloc, vals, result, status, rcAccess, clones,
          votes, aggregate, idle, conn, closeReason, streams, delivered,
          openAtClose>>

---------------------------------------------------------------------------
(* Bounds *)

MaxLen == 2
MaxVals == 2
MaxGarbage == 2
MaxReuse == 1
MaxClones == 2
MaxStreams == 2
IdleTimeout == 1
WordBits == 8

---------------------------------------------------------------------------
(* Strings *)

Slash == 47

LetterA == Slash + 50

Chars == {Slash, LetterA}

RECURSIVE StringsOfLen(_)
StringsOfLen(n) ==
    IF n = 0 THEN {<<>>}
    ELSE {Append(s, c) : s \in StringsOfLen(n - 1), c \in Chars}

Strings == UNION {StringsOfLen(n) : n \in 0..MaxLen}

\* a check that looks for the '/' anywhere in the string
StartsWithSlashAnywhere(s) == \E k \in 1..Len(s) : s[k] = Slash

\* str::starts_with('/') and the slice pattern [b'/', ..]
StartsWithSlash(s) == Len(s) > 0 /\ s[1] = Slash

---------------------------------------------------------------------------
(* Memory layout *)

WordMod == 2 ^ WordBits

\* isize::MAX, the limit Arc::clone aborts above
MAX_REFCOUNT == (WordMod \div 2) - 1

\* offset of `data` in ArcInner<str>: the strong and the weak counter
DataOffset == 2

Stride == DataOffset + MaxLen

\* Every try_from_owned makes an Arc of its own, with counters of its own, so
\* owned values of different calls never share anything: the model follows
\* the allocation of one call, its clones, and the static values next to it.
Blocks == {0}

Addr == 0 .. (Cardinality(Blocks) * Stride - 1)

\* address of the String buffer of block b (what String::leak returns)
BufferOf(b) == b * Stride + DataOffset

BlockOfAddr(a) == a \div Stride

\* the cells of the String allocation of block b
AllocCells(b) ==
    IF alloc[b].state = "free" THEN {}
    ELSE BufferOf(b) .. (BufferOf(b) + alloc[b].len - 1)

\* Either::Left(s)
Left(s) == [tag |-> "Left", s |-> s, ptr |-> 0, len |-> 0]

\* Either::Right(Arc { ptr: inner, len })
Right(inner, n) == [tag |-> "Right", s |-> <<>>, ptr |-> inner, len |-> n]

\* what the call just made returned; NoResult after a call that returns nothing
NoResult == [op |-> "none", input |-> <<>>, outcome |-> "none", value |-> Left(<<>>)]

\* the StreamProtocol values that exist
LiveVals == BagToSet(vals)

Min(S) == CHOOSE x \in S : \A y \in S : x <= y

\* where the next String is allocated: the first unused block (-1: none)
FreeBlock ==
    IF \A b \in Blocks : alloc[b].state # "free" THEN 0 - 1
    ELSE Min({b \in Blocks : alloc[b].state = "free"})

\* Arc::from_raw: the ArcInner is assumed DataOffset in front of the data
ArcFromRaw(dataPtr, n) == Right(dataPtr - DataOffset, n)

\* a view that loses the last character
ReadStrShort(h, inner, n) == [k \in 1..(n - 1) |-> h[inner + DataOffset + k - 1]]

\* &inner.data as a string: the len cells behind the two counters
ReadStr(h, inner, n) == [k \in 1..n |-> h[inner + DataOffset + k - 1]]

\* AsRef<str> for StreamProtocol
AsRef(p) == IF p.tag = "Left" THEN p.s ELSE ReadStr(heap, p.ptr, p.len)

\* block whose ArcInner the value p points at
BlockOf(p) == BlockOfAddr(p.ptr)

\* the string p was constructed from
Built(p) == IF p.tag = "Left" THEN p.s ELSE alloc[BlockOf(p)].content

---------------------------------------------------------------------------
(* Comparison and hashing *)

\* PartialEq<&str> for StreamProtocol
EqStr(p, s) == AsRef(p) = s

\* a comparison that accepts any prefix of the protocol
StrEqPrefix(s, p) ==
    /\ Len(s) <= Len(AsRef(p))
    /\ \A k \in 1..Len(s) : s[k] = AsRef(p)[k]

\* PartialEq<StreamProtocol> for &str
StrEq(s, p) == s = AsRef(p)

\* the equality #[derive(PartialEq)] would give: that of `inner`, where a
\* Left never equals a Right
EqDerived(a, b) == a.tag = b.tag /\ AsRef(a) = AsRef(b)

\* PartialEq for StreamProtocol
Eq(a, b) == AsRef(a) = AsRef(b)

HashMod == 251

HashMul == 31

StrTerminator == 255

\* Hasher::write of one byte
HasherWrite(h, byte) == (h * HashMul + byte) % HashMod

RECURSIVE HasherWriteAll(_, _)
HasherWriteAll(h, s) ==
    IF s = <<>> THEN h
    ELSE HasherWriteAll(HasherWrite(h, Head(s)), Tail(s))

\* Hash for str: the bytes, then 0xff
HashOfStr(h, s) == HasherWrite(HasherWriteAll(h, s), StrTerminator)

\* Hash for StreamProtocol, started from hasher state h
Hash(p, h) == HashOfStr(h, AsRef(p))

---------------------------------------------------------------------------
(* Initial state *)

Behaviours == {"keep_alive", "ping"}

FreeAlloc == [state |-> "free", len |-> 0, content |-> <<>>, releases |-> 0,
              writes |-> 0]

ProtoInit ==
    /\ heap = [a \in Addr |-> 0]
    /\ alloc = [b \in Blocks |-> FreeAlloc]
    /\ vals = EmptyBag
    /\ result = NoResult
    /\ status = "running"
    /\ rcAccess = {}
    /\ clones = 0

SwarmInit ==
    /\ votes = [b \in Behaviours |-> FALSE]
    /\ aggregate = FALSE
    /\ idle = 0
    /\ conn = "none"
    /\ closeReason = "none"
    /\ streams = <<>>
    /\ delivered = <<>>
    /\ openAtClose = {}

Init == ProtoInit /\ SwarmInit

---------------------------------------------------------------------------
(* StreamProtocol operations *)

\* a constructor that forgot the check
NewUnchecked(s) ==
    /\ status = "running"
    /\ BagCardinality(vals) < MaxVals
    /\ vals' = vals (+) SetToBag({Left(s)})
    /\ result' = [op |-> "new", input |-> s, outcome |-> "Ok", value |-> Left(s)]
    /\ rcAccess' = {}
    /\ UNCHANGED <<heap, alloc, status, clones>>
    /\ UNCHANGED swarmVars

\* StreamProtocol::new
New(s) ==
    /\ status = "running"
    /\ BagCardinality(vals) < MaxVals
    /\ IF StartsWithSlash(s)
         THEN /\ vals' = vals (+) SetToBag({Left(s)})
              /\ result' = [op |-> "new", input |-> s, outcome |-> "Ok",
                            value |-> Left(s)]
              /\ status' = status
         ELSE /\ status' = "panicked"
              /\ result' = [op |-> "new", input |-> s, outcome |-> "Panic",
                            value |-> Left(<<>>)]
              /\ vals' = vals
    /\ rcAccess' = {}
    /\ UNCHANGED <<heap, alloc, clones>>
    /\ UNCHANGED swarmVars

\* StreamProtocol::try_from_owned; the String argument lives in block b, and
\* the two cells in front of its buffer hold g1 and g2
TryFromOwned(s, b, g1, g2) ==
    /\ status = "running"
    /\ BagCardinality(vals) < MaxVals
    /\ b = FreeBlock
    /\ IF ~StartsWithSlash(s)
         THEN /\ result' = [op |-> "try_from_owned", input |-> s,
                            outcome |-> "Err", value |-> Left(<<>>)]
              /\ UNCHANGED <<heap, alloc, vals>>
         ELSE /\ heap' = [a \in Addr |->
                            IF a >= BufferOf(b) /\ a < BufferOf(b) + Len(s)
                              THEN s[a - BufferOf(b) + 1]
                            ELSE IF a = BufferOf(b) - 2 THEN g1
                            ELSE IF a = BufferOf(b) - 1 THEN g2
                            ELSE heap[a]]
              /\ alloc' = [alloc EXCEPT ![b] =
                             [state |-> "live", len |-> Len(s), content |-> s,
                              releases |-> 0, writes |-> 0]]
              /\ vals' = vals (+) SetToBag({ArcFromRaw(BufferOf(b), Len(s))})
              /\ result' = [op |-> "try_from_owned", input |-> s,
                            outcome |-> "Ok",
                            value |-> ArcFromRaw(BufferOf(b), Len(s))]
    /\ rcAccess' = {}
    /\ UNCHANGED <<status, clones>>
    /\ UNCHANGED swarmVars

\* the cells handed to the allocator when the ArcInner of block b is freed
ArcInnerCells(b) ==
    (BufferOf(b) - DataOffset) .. (BufferOf(b) + alloc[b].len - 1)

SetCell(h, a, v) == [h EXCEPT ![a] = v]

\* AtomicUsize::fetch_add(1) / fetch_sub(1): wrapping
FetchAdd(h, a) == SetCell(h, a, (h[a] + 1) % WordMod)

FetchSub(h, a) == SetCell(h, a, (h[a] + WordMod - 1) % WordMod)

\* Clone for StreamProtocol (derived): a copy for Left, Arc::clone for Right
Clone(p) ==
    /\ status = "running"
    /\ p \in LiveVals
    /\ BagCardinality(vals) < MaxVals
    /\ result' = NoResult
    /\ alloc' = alloc
    /\ IF p.tag = "Left"
         THEN /\ vals' = vals (+) SetToBag({p})
              /\ rcAccess' = {}
              /\ UNCHANGED <<heap, status, clones>>
         ELSE /\ clones < MaxClones
              /\ clones' = clones + 1
              /\ heap' = FetchAdd(heap, p.ptr)
              /\ rcAccess' = {p.ptr}
              /\ IF heap[p.ptr] > MAX_REFCOUNT
                   THEN /\ status' = "aborted"
                        /\ vals' = vals
                   ELSE /\ vals' = vals (+) SetToBag({p})
                        /\ status' = status
    /\ UNCHANGED swarmVars

\* Memory no value points into any more cannot be read again: once the last
\* handle on block b is gone its cells leave the state (the allocation record
\* keeps whether and how often the block was released).
Forget(h, b, last) ==
    IF last THEN [a \in Addr |-> IF BlockOfAddr(a) = b THEN 0 ELSE h[a]] ELSE h

ForgetAlloc(al, b, last) ==
    IF last THEN [al EXCEPT ![b].len = 0, ![b].content = <<>>, ![b].writes = 0]
    ELSE al

\* dealloc of the ArcInner of block b: the pointer is not one the allocator
\* handed out, so the allocator either detects it and aborts or takes the
\* cells back
Dealloc(b, last) ==
    \/ /\ status' = "aborted"
       /\ alloc' = ForgetAlloc(alloc, b, last)
    \/ /\ status' = status
       /\ alloc' = [ForgetAlloc(alloc, b, last) EXCEPT
                      ![b].state = "released",
                      ![b].releases = IF @ < 2 THEN @ + 1 ELSE 2]

\* Drop of a StreamProtocol: nothing for Left, Arc::drop for Right
Drop(p) ==
    /\ status = "running"
    /\ p \in LiveVals
    /\ vals' = vals (-) SetToBag({p})
    /\ result' = NoResult
    /\ clones' = clones
    /\ IF p.tag = "Left"
         THEN /\ rcAccess' = {}
              /\ UNCHANGED <<heap, alloc, status>>
         ELSE LET strong == p.ptr
                  weak == p.ptr + 1
                  b == BlockOf(p)
                  last == CopiesIn(p, vals) = 1
                  h1 == FetchSub(heap, strong)
              IN  IF heap[strong] # 1
                    THEN /\ heap' = Forget(h1, b, last)
                         /\ alloc' = ForgetAlloc(alloc, b, last)
                         /\ rcAccess' = {strong}
                         /\ status' = status
                    ELSE \* drop_slow: drop the data, then the implicit Weak
                         /\ heap' = Forget(FetchSub(h1, weak), b, last)
                         /\ rcAccess' = {strong, weak}
                         /\ IF h1[weak] # 1
                              THEN /\ alloc' = ForgetAlloc(alloc, b, last)
                                   /\ status' = status
                              ELSE Dealloc(b, last)
    /\ UNCHANGED swarmVars

ReuseVals == 0 .. MaxGarbage

\* the allocator hands released cells to another owner, who writes to them
Reuse(b, a, v) ==
    /\ status = "running"
    /\ alloc[b].state = "released"
    /\ \E p \in LiveVals : p.tag = "Right" /\ BlockOf(p) = b
    /\ a \in ArcInnerCells(b)
    /\ alloc[b].writes < MaxReuse
    /\ heap[a] # v
    /\ heap' = SetCell(heap, a, v)
    /\ alloc' = [alloc EXCEPT ![b].writes = @ + 1]
    /\ result' = NoResult
    /\ rcAccess' = {}
    /\ UNCHANGED <<vals, status, clones>>
    /\ UNCHANGED swarmVars

ProtoNext ==
    \/ \E s \in Strings : New(s)
    \/ \E s \in Strings, b \in Blocks :
          \E g1 \in 0..MaxGarbage, g2 \in 0..MaxGarbage : TryFromOwned(s, b, g1, g2)
    \/ \E p \in LiveVals : Clone(p)
    \/ \E p \in LiveVals : Drop(p)
    \/ \E b \in Blocks, a \in Addr, v \in ReuseVals : Reuse(b, a, v)

Spec == Init /\ [][ProtoNext]_vars

---------------------------------------------------------------------------
(* The connection of the ping example: one connection, served by the       *)
(* composition of keep_alive and ping                                      *)

PingProtocol == <<Slash, LetterA>>

OtherProtocol == <<Slash, Slash>>

ProtocolIds == {PingProtocol, OtherProtocol}

\* what each sub-Behaviour of the composition handles
Descriptor(b) == IF b = "ping" THEN {PingProtocol} ELSE {}

\* protocolsOffered(): the union of the sub-Behaviours' sets
ProtocolsOffered == UNION {Descriptor(b) : b \in Behaviours}

\* an aggregate that asks every sub-Behaviour to agree
AggregateAll(v) == \A b \in Behaviours : v[b]

\* the aggregate keep-alive vote: the OR of the sub-votes
Aggregate(v) == \E b \in Behaviours : v[b]

\* a match that takes whatever is proposed
MatchesAnything(c, acc) == TRUE

\* a candidate is agreed when the other side accepts it
Matches(c, acc) == c \in acc

\* a close that does not wait for the streams
CanFinishCloseAtOnce(st) == TRUE

\* the connection reports Closed once every stream has
CanFinishClose(st) == \A s \in 1..Len(st) : st[s].state = "Closed"

StreamIds == 1 .. Len(streams)

NoProtocol == <<>>

Event(e, s) == [ev |-> e, s |-> s]

SetStream(s, r) == [streams EXCEPT ![s] = r]

\* a connection is established: every sub-Behaviour gets its handler and
\* gives its first vote
Establish ==
    /\ conn = "none"
    /\ conn' = "established"
    /\ votes' = [b \in Behaviours |-> b = "keep_alive"]
    /\ aggregate' = Aggregate(votes')
    /\ idle' = 0
    /\ UNCHANGED <<closeReason, streams, delivered, openAtClose>>
    /\ UNCHANGED protoVars

\* a sub-Behaviour changes its vote; the aggregate is recomputed in the
\* same turn
SetVote(b, v) ==
    /\ conn = "established"
    /\ votes[b] # v
    /\ votes' = [votes EXCEPT ![b] = v]
    /\ aggregate' = Aggregate(votes')
    /\ UNCHANGED <<idle, conn, closeReason, streams, delivered, openAtClose>>
    /\ UNCHANGED protoVars

\* time passes without activity on the connection
Tick ==
    /\ conn = "established"
    /\ idle <= IdleTimeout
    /\ idle' = idle + 1
    /\ UNCHANGED <<votes, aggregate, conn, closeReason, streams, delivered,
                   openAtClose>>
    /\ UNCHANGED protoVars

\* openOutboundStream(want) / acceptInboundStream() with the remote
\* proposing want; acc is what the remote accepts of an outbound stream
OpenStream(dir, want, acc) ==
    /\ conn = "established"
    /\ Len(streams) < MaxStreams
    /\ dir = "in" => acc = {want}
    /\ dir = "out" => acc \subseteq {want}
    /\ streams' = Append(streams,
          [state |-> "Opening", dir |-> dir,
           cands |-> IF dir = "out" THEN {want} ELSE ProtocolsOffered,
           acc |-> acc, proto |-> NoProtocol, error |-> "none", opens |-> 0,
           negotiated |-> 0, closed |-> 0, failed |-> 0])
    /\ idle' = 0
    /\ UNCHANGED <<votes, aggregate, conn, closeReason, delivered, openAtClose>>
    /\ UNCHANGED protoVars

StartNegotiation(s) ==
    /\ conn = "established"
    /\ streams[s].state = "Opening"
    /\ streams' = SetStream(s, [streams[s] EXCEPT !.state = "Negotiating"])
    /\ idle' = 0
    /\ UNCHANGED <<votes, aggregate, conn, closeReason, delivered, openAtClose>>
    /\ UNCHANGED protoVars

\* one round of the propose/accept exchange on stream s
Negotiate(s) ==
    /\ conn = "established"
    /\ streams[s].state = "Negotiating"
    /\ idle' = 0
    /\ IF streams[s].cands = {}
         THEN streams' = SetStream(s, [streams[s] EXCEPT
                              !.state = "Closed", !.error = "NegotiationFailed",
                              !.failed = @ + 1])
         ELSE \E c \in streams[s].cands :
                IF Matches(c, streams[s].acc)
                  THEN streams' = SetStream(s, [streams[s] EXCEPT
                                       !.state = "Open", !.proto = c,
                                       !.opens = @ + 1, !.negotiated = @ + 1])
                  ELSE streams' = SetStream(s, [streams[s] EXCEPT
                                       !.cands = @ \ {c}])
    /\ UNCHANGED <<votes, aggregate, conn, closeReason, delivered, openAtClose>>
    /\ UNCHANGED protoVars

\* either peer or the owning sub-Behaviour asks to close stream s
CloseStream(s) ==
    /\ conn = "established"
    /\ streams[s].state = "Open"
    /\ streams' = SetStream(s, [streams[s] EXCEPT !.state = "Closing"])
    /\ idle' = 0
    /\ UNCHANGED <<votes, aggregate, conn, closeReason, delivered, openAtClose>>
    /\ UNCHANGED protoVars

FinishStream(s) ==
    /\ conn = "established"
    /\ streams[s].state = "Closing"
    /\ streams' = SetStream(s, [streams[s] EXCEPT
                        !.state = "Closed", !.closed = @ + 1])
    /\ idle' = 0
    /\ UNCHANGED <<votes, aggregate, conn, closeReason, delivered, openAtClose>>
    /\ UNCHANGED protoVars

BeginClose(reason) ==
    /\ conn' = "closing"
    /\ closeReason' = reason
    /\ openAtClose' = {s \in StreamIds : streams[s].state \in {"Open", "Closing"}}
    /\ UNCHANGED <<votes, aggregate, idle, streams, delivered>>
    /\ UNCHANGED protoVars

\* the Swarm Driver closes an idle connection nobody votes to keep
IdleClose ==
    /\ conn = "established"
    /\ idle > IdleTimeout
    /\ ~aggregate
    /\ BeginClose("IdleTimeout")

\* disconnect(peerId), or the transport closing
RequestClose ==
    /\ conn = "established"
    /\ BeginClose("Requested")

\* closing unwinds stream s: its handler is notified
UnwindStream(s) ==
    /\ conn = "closing"
    /\ streams[s].state # "Closed"
    /\ IF streams[s].state \in {"Open", "Closing"}
         THEN /\ streams' = SetStream(s, [streams[s] EXCEPT
                                  !.state = "Closed", !.closed = @ + 1])
              /\ delivered' = Append(delivered, Event("SubstreamClosed", s))
         ELSE /\ streams' = SetStream(s, [streams[s] EXCEPT
                              !.state = "Closed", !.error = "NegotiationFailed",
                              !.failed = @ + 1])
              /\ delivered' = Append(delivered, Event("NegotiationFailed", s))
    /\ UNCHANGED <<votes, aggregate, idle, conn, closeReason, openAtClose>>
    /\ UNCHANGED protoVars

FinishClose ==
    /\ conn = "closing"
    /\ CanFinishClose(streams)
    /\ conn' = "closed"
    /\ delivered' = Append(delivered, Event("ConnectionClosed", 0))
    /\ UNCHANGED <<votes, aggregate, idle, closeReason, streams, openAtClose>>
    /\ UNCHANGED protoVars

SwarmNext ==
    \/ Establish
    \/ \E b \in Behaviours, v \in BOOLEAN : SetVote(b, v)
    \/ Tick
    \/ \E dir \in {"in", "out"}, want \in ProtocolIds, acc \in SUBSET ProtocolIds :
          OpenStream(dir, want, acc)
    \/ \E s \in StreamIds : StartNegotiation(s)
    \/ \E s \in StreamIds : Negotiate(s)
    \/ \E s \in StreamIds : CloseStream(s)
    \/ \E s \in StreamIds : FinishStream(s)
    \/ IdleClose
    \/ RequestClose
    \/ \E s \in StreamIds : UnwindStream(s)
    \/ FinishClose

SpecSwarm == Init /\ [][SwarmNext]_vars

---------------------------------------------------------------------------
(* Properties of StreamProtocol *)

HasherSeeds == {0, 1}

\* C1: every call of try_from_owned on a string that starts with '/' returns
\* Ok, and as_ref() of the value it returns is that very string.
C1_FromOwnedRoundTrip ==
    (result.op = "try_from_owned" /\ result.input # <<>>
        /\ Head(result.input) = Slash)
    => /\ result.outcome = "Ok"
       /\ result.value.tag = "Right"
       /\ result.value \in LiveVals
       /\ AsRef(result.value) = result.input
       /\ Len(AsRef(result.value)) = Len(result.input)

C1_Witness ==
    /\ result.op = "try_from_owned"
    /\ result.outcome = "Ok"
    /\ result.input = <<Slash, LetterA>>
    /\ AsRef(result.value) = <<Slash, LetterA>>

\* C2: a call of try_from_owned on a string that does not start with '/'
\* (the empty string included) returns Err, produces no value, changes no
\* memory and leaves the program running.
C2_FromOwnedRejects ==
    [][(result'.op = "try_from_owned"
          /\ (result'.input = <<>> \/ Head(result'.input) # Slash))
       => /\ result'.outcome = "Err"
          /\ vals' = vals
          /\ heap' = heap
          /\ alloc' = alloc
          /\ status' = "running"]_vars

C2_Witness ==
    /\ result.op = "try_from_owned"
    /\ result.outcome = "Err"
    /\ result.input = <<>>
    /\ status = "running"

\* C3 as stated: new on a string that does not start with '/' gives the
\* caller a failure outcome and the program is neither aborted nor panicked.
C3_NewFailsWithoutPanic ==
    (result.op = "new" /\ (result.input = <<>> \/ Head(result.input) # Slash))
    => (result.outcome = "Err" /\ status = "running")

\* C3 amended: new on a string that does not start with '/' panics, and
\* produces no value.
C3_NewPanics ==
    [][(result'.op = "new"
          /\ (result'.input = <<>> \/ Head(result'.input) # Slash))
       => /\ result'.outcome = "Panic"
          /\ status' = "panicked"
          /\ vals' = vals]_vars

C3_Witness ==
    /\ result.op = "new"
    /\ result.input = <<LetterA>>
    /\ result.outcome = "Panic"
    /\ status = "panicked"

\* C4: two values are equal exactly when as_ref() gives the same string for
\* both, whichever way each was built, and equal values hash alike in the
\* same hasher.
C4_EqHashByContent ==
    \A a \in LiveVals, b \in LiveVals :
        /\ Eq(a, b) <=> (AsRef(a) = AsRef(b))
        /\ Eq(a, b) => \A h \in HasherSeeds : Hash(a, h) = Hash(b, h)

C4_Witness ==
    \E a \in LiveVals, b \in LiveVals :
        /\ a.tag = "Left" /\ b.tag = "Right"
        /\ AsRef(a) = <<Slash, LetterA>>
        /\ Eq(a, b) /\ Eq(b, a)
        /\ Hash(a, 0) = Hash(b, 0)

\* C5: the storage behind a value of try_from_owned is validly reference
\* counted: the counters are cells of the allocation that holds the string,
\* the storage is not released while a copy lives, every live copy reads
\* the string it was built from, and the storage is released once, when
\* the last copy is dropped.
C5_SharedStorageValid ==
    /\ \A a \in rcAccess : \E b \in Blocks : a \in AllocCells(b)
    /\ \A p \in LiveVals :
          p.tag = "Right" =>
            /\ alloc[BlockOf(p)].state = "live"
            /\ AsRef(p) = Built(p)
    /\ \A b \in Blocks :
          /\ alloc[b].releases <= 1
          /\ (status = "running" /\ alloc[b].state = "live")
                => \E p \in LiveVals : p.tag = "Right" /\ BlockOf(p) = b

\* C6: every value that exists holds a non-empty string that starts with
\* '/', the one it was built from.
C6_ContentInvariant ==
    \A p \in LiveVals :
        /\ AsRef(p) # <<>>
        /\ Head(AsRef(p)) = Slash
        /\ AsRef(p) = Built(p)

\* C7: p == s and s == p agree for every value p and string s, and are true
\* exactly when as_ref() of p is s.
C7_StrCompareSymmetric ==
    \A p \in LiveVals, s \in Strings :
        /\ EqStr(p, s) <=> StrEq(s, p)
        /\ EqStr(p, s) <=> (AsRef(p) = s)

C7_Witness ==
    \E p \in LiveVals :
        /\ p.tag = "Right"
        /\ EqStr(p, <<Slash, LetterA>>) /\ StrEq(<<Slash, LetterA>>, p)
        /\ ~EqStr(p, <<Slash>>) /\ ~StrEq(<<Slash>>, p)

---------------------------------------------------------------------------
(* Properties of the connection *)

EventsOf(e, s) == {k \in 1..Len(delivered) : delivered[k] = [ev |-> e, s |-> s]}

\* C8: the aggregate keep-alive vote is the OR of the current sub-votes, and
\* the connection is closed for idling only when no sub-Behaviour votes
\* keep-alive and the idle duration exceeds the timeout.
C8_KeepAliveAggregate ==
    /\ [](conn # "none" => (aggregate <=> (votes["keep_alive"] \/ votes["ping"])))
    /\ [][(conn = "established" /\ conn' # "established"
              /\ closeReason' = "IdleTimeout")
          => /\ ~votes["keep_alive"]
             /\ ~votes["ping"]
             /\ idle > IdleTimeout]_vars

C8_Witness ==
    /\ conn = "closing"
    /\ closeReason = "IdleTimeout"
    /\ votes = [b \in Behaviours |-> FALSE]
    /\ idle > IdleTimeout

C10_StreamMachine ==
    /\ [](\A s \in StreamIds :
            /\ streams[s].opens <= 1
            /\ streams[s].negotiated = streams[s].opens
            /\ streams[s].state \in {"Open", "Closing"} => streams[s].opens = 1
            /\ streams[s].opens = 1 =>
                  /\ streams[s].proto # NoProtocol
                  /\ streams[s].proto \in streams[s].acc
            /\ streams[s].error = "NegotiationFailed" =>
                  /\ streams[s].state = "Closed"
                  /\ streams[s].opens = 0
                  /\ streams[s].proto = NoProtocol)
    /\ [][\A s \in StreamIds :
            /\ streams[s].proto # NoProtocol => streams'[s].proto = streams[s].proto
            /\ (streams[s].state # "Open" /\ streams'[s].state = "Open")
                  => streams[s].state = "Negotiating"
            /\ (conn = "established" /\ streams[s].error = "none"
                  /\ streams'[s].error = "NegotiationFailed")
                  => /\ conn' = conn
                     /\ streams[s].cands = {}
                     /\ \A o \in StreamIds \ {s} : streams'[o] = streams[o]]_vars

C10_Witness ==
    /\ conn = "established"
    /\ \E s \in StreamIds, o \in StreamIds :
          /\ streams[s].error = "NegotiationFailed"
          /\ streams[o].state = "Open"
          /\ streams[o].proto = PingProtocol

====
